---- MODULE Spec2Model ----
(***************************************************************************)
(* glacier_check: reconciliation of a local directory with a remote        *)
(* archive inventory (src/glacier_check/glacier_check.py and cli.py).      *)
(*                                                                         *)
(* Spec    models whole runs of cli.main on one directory, interleaved     *)
(*         with the user changing the directory between runs.              *)
(* SpecFn  applies the pure functions of glacier_check.py to inputs drawn  *)
(*         from bounded sets.                                              *)
(*                                                                         *)
(* Abstractions: a file's content is an opaque value and the botocore tree *)
(* hash is a fixed injective map from contents to checksum strings; the    *)
(* python lists returned by the check_* functions are modelled as sets     *)
(* (their order is the dict's iteration order and is never compared);      *)
(* timestamps are the number of the run that produced them; the permission *)
(* bits of the local inventory file and failures of writes are not         *)
(* modelled; the console output (--verbose) is not modelled.               *)
(***************************************************************************)
EXTENDS Integers, Sequences, FiniteSets, TLC

VARIABLES
    files,                \* the directory's content files: name -> content
    unreadable,           \* content files whose open() raises IOError
    localFile,            \* local-inventory.json
    remoteFile,           \* remote-inventory.json
    receiptFile,          \* check-receipt.json
    now,                  \* the clock (datetime.now), one tick per run
    pc,                   \* position of main
    deep,                 \* the --deep flag of the current / last run
    outcome,              \* how the last run ended: "ok" or the exception
    old_local_inventory,  \* main's locals
    valid_filenames,
    local_inventory,
    remote_inventory,
    missing_local_files,
    missing_remote_files,
    mismatched_files,
    start_local,          \* history: localFile when the run was invoked
    streak,               \* history: completed runs in a row, nothing changed between
    hashes,               \* history: tree-hash computations per file in non-deep runs
    doneHashes            \* history: those of runs whose update step completed

vars == <<files, unreadable, localFile, remoteFile, receiptFile, now, pc, deep,
          outcome, old_local_inventory, valid_filenames, local_inventory,
          remote_inventory, missing_local_files, missing_remote_files,
          mismatched_files, start_local, streak, hashes, doneHashes>>

(* ------------------------------ bounds -------------------------------- *)

MaxRuns == 3      \* runs of main in one behaviour of Spec
MaxLen == 2       \* records per inventory / filenames per list in SpecFn

Names == {"a.txt", "b.txt"}
Contents == {"c1", "c2"}
Checksums == {"H1", "H2"}

(* ---------------------------- constants ------------------------------- *)

REMOTE_INVENTORY_FILENAME == "remote-inventory.json"
LOCAL_INVENTORY_FILENAME == "local-inventory.json"
CHECK_RECEIPT_FILENAME == "check-receipt.json"

EXCLUDE_FILENAMES ==
    {REMOTE_INVENTORY_FILENAME, LOCAL_INVENTORY_FILENAME, CHECK_RECEIPT_FILENAME}

(* --------------------------- data shapes ------------------------------ *)

\* botocore's calculate_tree_hash on a file's content
TreeHash(c) == IF c = "c1" THEN "H1" ELSE "H2"

\* A parsed JSON document: an object with an ArchiveList, or (hasList FALSE)
\* some other JSON value such as {}.
EmptyInventory == [hasList |-> TRUE, ArchiveList |-> <<>>]
NotAnInventory == [hasList |-> FALSE, ArchiveList |-> <<>>]

Entry(f, t, h) ==
    [ArchiveDescription |-> f, CreationDate |-> t, SHA256TreeHash |-> h]

\* An inventory file on disk.
MissingFile == [kind |-> "missing", json |-> NotAnInventory]
UnreadableFile == [kind |-> "unreadable", json |-> NotAnInventory]
GarbageFile == [kind |-> "garbage", json |-> NotAnInventory]
JsonFile(data) == [kind |-> "json", json |-> data]

NoReceipt ==
    [exists |-> FALSE,
     receipt |-> [local_dir |-> "", missing_local_files |-> {},
                  missing_remote_files |-> {}, mismatched_files |-> {},
                  timestamp |-> 0]]

SeqsUpTo(S, n) == UNION {[1..k -> S] : k \in 0..n}

\* The orders in which os.listdir may return the names of S.
Orderings(S) ==
    {s \in [1..Cardinality(S) -> S] : \A i, j \in DOMAIN s : i # j => s[i] # s[j]}

(* --------------------------- glacier_check.py ------------------------- *)

\* os.listdir(local_dir), restricted to regular files
listdir ==
    DOMAIN files
    \cup (IF localFile.kind # "missing" THEN {LOCAL_INVENTORY_FILENAME} ELSE {})
    \cup (IF remoteFile.kind # "missing" THEN {REMOTE_INVENTORY_FILENAME} ELSE {})
    \cup (IF receiptFile.exists THEN {CHECK_RECEIPT_FILENAME} ELSE {})

get_valid_files(listing) == {f \in listing : f \notin EXCLUDE_FILENAMES}

\* open() raises IOError for a missing or unreadable file, json.load raises
\* ValueError for text that is not JSON; both give the empty inventory.
\* (variant: only the IOError is caught)
load_inventory_ioerror_only(file) ==
    IF file.kind \in {"missing", "unreadable"} THEN EmptyInventory ELSE file.json
load_inventory(file) ==
    IF file.kind \in {"missing", "unreadable"} \/ file.kind = "garbage"
    THEN EmptyInventory
    ELSE file.json

\* inventory['ArchiveList'] raises KeyError when the document has no such key
dictify_raises(inventory) == ~inventory.hasList

\* the dict comprehension: a later entry overwrites an earlier one of the same name
dictify_inventory(inventory) ==
    LET L == inventory.ArchiveList
        last(k) == CHOOSE i \in DOMAIN L :
                      /\ L[i].ArchiveDescription = k
                      /\ \A j \in DOMAIN L : L[j].ArchiveDescription = k => j <= i
    IN [k \in {L[i].ArchiveDescription : i \in DOMAIN L} |->
            L[last(k)].SHA256TreeHash]

\* line 64: the cache decides, the file's content plays no part
\* (variant: the cache is never consulted)
is_cached_never(old_dict, f) == FALSE
is_cached(old_dict, f) == f \in DOMAIN old_dict

\* line 67: open(os.path.join(local_dir, f), 'rb') raises
open_fails(fs, unr, f) == f \notin DOMAIN fs \/ f \in unr

\* lines 64-68: the checksum recorded for f
\* (variant: a file that is present is hashed again, cached or not)
checksum_rehash(fs, old_dict, f) ==
    IF f \in DOMAIN fs THEN TreeHash(fs[f]) ELSE old_dict[f]
checksum_of(fs, old_dict, f) ==
    IF is_cached(old_dict, f) THEN old_dict[f] ELSE TreeHash(fs[f])

\* lines 63-74: the loop over local_filenames; acc is what the loop has built.
\* A failed open ends the call with the exception and no result.
RECURSIVE update_loop(_, _, _, _, _, _)
update_loop(fs, unr, names, old_dict, t, acc) ==
    IF names = <<>> THEN acc
    ELSE LET f == Head(names) IN
         IF ~is_cached(old_dict, f) /\ open_fails(fs, unr, f)
         THEN [raised |-> "IOError", inventory |-> EmptyInventory,
               hashed |-> acc.hashed]
         ELSE update_loop(fs, unr, Tail(names), old_dict, t,
                [raised |-> "none",
                 inventory |->
                    [hasList |-> TRUE,
                     ArchiveList |-> Append(acc.inventory.ArchiveList,
                                        Entry(f, t, checksum_of(fs, old_dict, f)))],
                 hashed |-> IF is_cached(old_dict, f) THEN acc.hashed
                            ELSE acc.hashed \cup {f}])

NoResult(e) == [raised |-> e, inventory |-> EmptyInventory, hashed |-> {}]

\* update_local_inventory(local_dir, local_filenames, old_local_inventory) at time t
\* (variants: the records of names no longer listed are carried over; a cached
\* file is skipped instead of recorded)
update_keep_old(fs, unr, local_filenames, old, t) ==
    IF dictify_raises(old) THEN NoResult("KeyError")
    ELSE LET r == update_loop(fs, unr, local_filenames, dictify_inventory(old), t,
                              NoResult("none"))
         IN IF r.raised # "none" THEN r
            ELSE [r EXCEPT !.inventory.ArchiveList =
                     @ \o SelectSeq(old.ArchiveList,
                            LAMBDA e : \A i \in DOMAIN local_filenames :
                                          local_filenames[i] # e.ArchiveDescription)]
update_skip_cached(fs, unr, local_filenames, old, t) ==
    IF dictify_raises(old) THEN NoResult("KeyError")
    ELSE update_loop(fs, unr,
                     SelectSeq(local_filenames,
                               LAMBDA f : ~is_cached(dictify_inventory(old), f)),
                     dictify_inventory(old), t, NoResult("none"))
update_local_inventory(fs, unr, local_filenames, old, t) ==
    IF dictify_raises(old) THEN NoResult("KeyError")
    ELSE update_loop(fs, unr, local_filenames, dictify_inventory(old), t,
                     NoResult("none"))

\* check_missing_files(from_inventory, against_inventory)
\* (variant: the two arguments taken the other way round)
check_missing_swapped(from_inventory, against_inventory) ==
    {k \in DOMAIN dictify_inventory(from_inventory) :
        k \notin DOMAIN dictify_inventory(against_inventory)}
check_missing_files(from_inventory, against_inventory) ==
    {k \in DOMAIN dictify_inventory(against_inventory) :
        k \notin DOMAIN dictify_inventory(from_inventory)}

\* check_mismatched_files(local_inventory, remote_inventory)
\* (variants: any two records of a name are compared instead of the projected
\* ones; the remote keys are walked, a name without local record counting as
\* a mismatch)
check_mismatched_first_entry(local, remote) ==
    {k \in DOMAIN dictify_inventory(local) \cap DOMAIN dictify_inventory(remote) :
        \E i \in DOMAIN local.ArchiveList, j \in DOMAIN remote.ArchiveList :
            /\ local.ArchiveList[i].ArchiveDescription = k
            /\ remote.ArchiveList[j].ArchiveDescription = k
            /\ local.ArchiveList[i].SHA256TreeHash # remote.ArchiveList[j].SHA256TreeHash}
check_mismatched_default(local, remote) ==
    {k \in DOMAIN dictify_inventory(remote) :
        \/ k \notin DOMAIN dictify_inventory(local)
        \/ dictify_inventory(local)[k] # dictify_inventory(remote)[k]}
check_mismatched_files(local, remote) ==
    {k \in DOMAIN dictify_inventory(local) \cap DOMAIN dictify_inventory(remote) :
        dictify_inventory(local)[k] # dictify_inventory(remote)[k]}

\* generate_check_receipt; os.path.abspath(local_dir) is the one directory
generate_check_receipt(missing_local, missing_remote, mismatched, t) ==
    [local_dir |-> "/dir", missing_local_files |-> missing_local,
     missing_remote_files |-> missing_remote, mismatched_files |-> mismatched,
     timestamp |-> t]

(* ------------------------------ Spec: runs of main --------------------- *)

NameOrder(S) == CHOOSE s \in Orderings(S) : TRUE

\* Inventories an inventory file of the directory may hold when the first run
\* starts: at most one record per name, any checksum.
DiskInventories ==
    UNION {{[hasList |-> TRUE,
             ArchiveList |-> [i \in DOMAIN NameOrder(S) |->
                                 Entry(NameOrder(S)[i], 0, m[NameOrder(S)[i]])]]
            : m \in [S -> Checksums]} : S \in SUBSET Names}

DiskFiles ==
    {MissingFile, GarbageFile, JsonFile(NotAnInventory)}
    \cup {JsonFile(inv) : inv \in DiskInventories}

Zero == [n \in Names |-> 0]

LocalsAtRest ==
    /\ old_local_inventory = EmptyInventory
    /\ valid_filenames = <<>>
    /\ local_inventory = EmptyInventory
    /\ remote_inventory = EmptyInventory
    /\ missing_local_files = {}
    /\ missing_remote_files = {}
    /\ mismatched_files = {}

Init ==
    /\ files \in UNION {[S -> Contents] : S \in SUBSET Names}
    /\ unreadable = {}
    /\ localFile \in DiskFiles
    /\ remoteFile \in DiskFiles \cup {UnreadableFile}
    /\ receiptFile = NoReceipt
    /\ now = 0
    /\ pc = "idle"
    /\ deep = FALSE
    /\ outcome = "none"
    /\ LocalsAtRest
    /\ start_local = localFile
    /\ streak = 0
    /\ hashes = Zero
    /\ doneHashes = Zero

\* The user writes (creates or changes) a content file between runs.
WriteFile(n, c) ==
    /\ pc = "idle"
    /\ IF n \in DOMAIN files THEN files[n] # c ELSE TRUE
    /\ files' = [k \in DOMAIN files \cup {n} |-> IF k = n THEN c ELSE files[k]]
    /\ streak' = 0
    /\ hashes' = [hashes EXCEPT ![n] = 0]
    /\ doneHashes' = [doneHashes EXCEPT ![n] = 0]
    /\ UNCHANGED <<unreadable, localFile, remoteFile, receiptFile, now, pc, deep,
                   outcome, old_local_inventory, valid_filenames, local_inventory,
                   remote_inventory, missing_local_files, missing_remote_files,
                   mismatched_files, start_local>>

\* The user deletes a content file between runs.
RemoveFile(n) ==
    /\ pc = "idle"
    /\ n \in DOMAIN files
    /\ files' = [k \in DOMAIN files \ {n} |-> files[k]]
    /\ unreadable' = unreadable \ {n}
    /\ streak' = 0
    /\ hashes' = [hashes EXCEPT ![n] = 0]
    /\ doneHashes' = [doneHashes EXCEPT ![n] = 0]
    /\ UNCHANGED <<localFile, remoteFile, receiptFile, now, pc, deep,
                   outcome, old_local_inventory, valid_filenames, local_inventory,
                   remote_inventory, missing_local_files, missing_remote_files,
                   mismatched_files, start_local>>

\* The user takes away or gives back the read permission of a content file;
\* its presence and content stay as they are.
Chmod(n) ==
    /\ pc = "idle"
    /\ n \in DOMAIN files
    /\ unreadable' = IF n \in unreadable THEN unreadable \ {n} ELSE unreadable \cup {n}
    /\ UNCHANGED <<files, localFile, remoteFile, receiptFile, now, pc, deep,
                   outcome, old_local_inventory, valid_filenames, local_inventory,
                   remote_inventory, missing_local_files, missing_remote_files,
                   mismatched_files, start_local, streak, hashes, doneHashes>>

\* An exception leaves main: the locals are gone, nothing more is written.
Raise(e) ==
    /\ pc' = "idle"
    /\ outcome' = e
    /\ streak' = 0
    /\ old_local_inventory' = EmptyInventory
    /\ valid_filenames' = <<>>
    /\ local_inventory' = EmptyInventory
    /\ remote_inventory' = EmptyInventory
    /\ missing_local_files' = {}
    /\ missing_remote_files' = {}
    /\ mismatched_files' = {}

\* main(deep, verbose, local_dir) is called.
MainInvoke(d) ==
    /\ pc = "idle"
    /\ now < MaxRuns
    /\ pc' = "remove"
    /\ deep' = d
    /\ now' = now + 1
    /\ outcome' = "running"
    /\ start_local' = localFile
    /\ hashes' = IF d THEN Zero ELSE hashes
    /\ doneHashes' = IF d THEN Zero ELSE doneHashes
    /\ UNCHANGED <<files, unreadable, localFile, remoteFile, receiptFile,
                   old_local_inventory, valid_filenames, local_inventory,
                   remote_inventory, missing_local_files, missing_remote_files,
                   mismatched_files, streak>>

\* cli.py 41-42: if deep: os.remove(local inventory file); os.remove raises
\* FileNotFoundError when there is no such file.
\* (variant: the file is removed whatever the flag)
MainRemoveAlways ==
    /\ pc = "remove"
    /\ IF localFile.kind = "missing"
       THEN /\ Raise("FileNotFoundError")
            /\ UNCHANGED localFile
       ELSE /\ localFile' = MissingFile
            /\ pc' = "load"
            /\ UNCHANGED <<outcome, streak, old_local_inventory, valid_filenames,
                           local_inventory, remote_inventory, missing_local_files,
                           missing_remote_files, mismatched_files>>
    /\ UNCHANGED <<files, unreadable, remoteFile, receiptFile, now, deep,
                   start_local, hashes, doneHashes>>
MainRemove ==
    /\ pc = "remove"
    /\ IF deep
       THEN IF localFile.kind = "missing"
            THEN /\ Raise("FileNotFoundError")
                 /\ UNCHANGED localFile
            ELSE /\ localFile' = MissingFile
                 /\ pc' = "load"
                 /\ UNCHANGED <<outcome, streak, old_local_inventory, valid_filenames,
                                local_inventory, remote_inventory, missing_local_files,
                                missing_remote_files, mismatched_files>>
       ELSE /\ pc' = "load"
            /\ UNCHANGED <<localFile, outcome, streak, old_local_inventory,
                           valid_filenames, local_inventory, remote_inventory,
                           missing_local_files, missing_remote_files,
                           mismatched_files>>
    /\ UNCHANGED <<files, unreadable, remoteFile, receiptFile, now, deep,
                   start_local, hashes, doneHashes>>

\* cli.py 44-45: load the cache and list the directory (in any order).
MainLoad ==
    /\ pc = "load"
    /\ old_local_inventory' = load_inventory(localFile)
    /\ valid_filenames' \in Orderings(get_valid_files(listdir))
    /\ pc' = "update"
    /\ UNCHANGED <<files, unreadable, localFile, remoteFile, receiptFile, now, deep,
                   outcome, local_inventory, remote_inventory, missing_local_files,
                   missing_remote_files, mismatched_files, start_local, streak,
                   hashes, doneHashes>>

\* cli.py 46-50: update_local_inventory; its exception leaves main.
MainUpdate ==
    /\ pc = "update"
    /\ LET r == update_local_inventory(files, unreadable, valid_filenames,
                                       old_local_inventory, now)
           count(h) == [n \in Names |-> IF n \in r.hashed /\ ~deep THEN h[n] + 1
                                        ELSE h[n]]
       IN /\ hashes' = count(hashes)
          /\ IF r.raised # "none"
             THEN /\ Raise(r.raised)
                  /\ UNCHANGED doneHashes
             ELSE /\ local_inventory' = r.inventory
                  /\ doneHashes' = count(doneHashes)
                  /\ pc' = "save"
                  /\ UNCHANGED <<outcome, streak, old_local_inventory,
                                 valid_filenames, remote_inventory,
                                 missing_local_files, missing_remote_files,
                                 mismatched_files>>
    /\ UNCHANGED <<files, unreadable, localFile, remoteFile, receiptFile, now, deep,
                   start_local>>

\* cli.py 51-52: the local inventory file is overwritten with the new inventory.
MainSave ==
    /\ pc = "save"
    /\ localFile' = JsonFile(local_inventory)
    /\ pc' = "load_remote"
    /\ UNCHANGED <<files, unreadable, remoteFile, receiptFile, now, deep, outcome,
                   old_local_inventory, valid_filenames, local_inventory,
                   remote_inventory, missing_local_files, missing_remote_files,
                   mismatched_files, start_local, streak, hashes, doneHashes>>

\* cli.py 54
MainLoadRemote ==
    /\ pc = "load_remote"
    /\ remote_inventory' = load_inventory(remoteFile)
    /\ pc' = "compare"
    /\ UNCHANGED <<files, unreadable, localFile, remoteFile, receiptFile, now, deep,
                   outcome, old_local_inventory, valid_filenames, local_inventory,
                   missing_local_files, missing_remote_files, mismatched_files,
                   start_local, streak, hashes, doneHashes>>

\* cli.py 56-60: the three comparisons; projecting a document without an
\* ArchiveList raises KeyError.
MainCompare ==
    /\ pc = "compare"
    /\ IF dictify_raises(local_inventory) \/ dictify_raises(remote_inventory)
       THEN Raise("KeyError")
       ELSE /\ missing_local_files' =
                   check_missing_files(local_inventory, remote_inventory)
            /\ missing_remote_files' =
                   check_missing_files(remote_inventory, local_inventory)
            /\ mismatched_files' =
                   check_mismatched_files(local_inventory, remote_inventory)
            /\ pc' = "receipt"
            /\ UNCHANGED <<outcome, streak, old_local_inventory, valid_filenames,
                           local_inventory, remote_inventory>>
    /\ UNCHANGED <<files, unreadable, localFile, remoteFile, receiptFile, now, deep,
                   start_local, hashes, doneHashes>>

\* cli.py 62-69: the receipt is generated and saved; main returns.
MainReceipt ==
    /\ pc = "receipt"
    /\ receiptFile' =
          [exists |-> TRUE,
           receipt |-> generate_check_receipt(missing_local_files,
                          missing_remote_files, mismatched_files, now)]
    /\ pc' = "idle"
    /\ outcome' = "ok"
    /\ streak' = streak + 1
    /\ old_local_inventory' = EmptyInventory
    /\ valid_filenames' = <<>>
    /\ local_inventory' = EmptyInventory
    /\ remote_inventory' = EmptyInventory
    /\ missing_local_files' = {}
    /\ missing_remote_files' = {}
    /\ mismatched_files' = {}
    /\ UNCHANGED <<files, unreadable, localFile, remoteFile, now, deep, start_local,
                   hashes, doneHashes>>

Next ==
    \/ \E n \in Names, c \in Contents : WriteFile(n, c)
    \/ \E n \in Names : RemoveFile(n)
    \/ \E n \in Names : Chmod(n)
    \/ \E d \in BOOLEAN : MainInvoke(d)
    \/ MainRemove
    \/ MainLoad
    \/ MainUpdate
    \/ MainSave
    \/ MainLoadRemote
    \/ MainCompare
    \/ MainReceipt

Spec == Init /\ [][Next]_vars

(* ---------------- SpecFn: the functions on drawn inputs ---------------- *)

FnNames == Names \cup {"c.txt"}

\* Any inventory of at most MaxLen records, names possibly repeated.
FnInventories(N) ==
    {[hasList |-> TRUE, ArchiveList |-> l] :
        l \in SeqsUpTo({Entry(f, 0, h) : f \in N, h \in Checksums}, MaxLen)}

\* Any directory: some names present with some content, some of them unreadable.
FnDirs ==
    UNION {[S -> Contents] \X SUBSET S : S \in SUBSET Names}

\* Any list of at most MaxLen names (os.listdir gives no name twice; the function
\* takes any list).
FnLists == SeqsUpTo(Names, MaxLen)

FnRest ==
    /\ localFile = MissingFile
    /\ remoteFile = MissingFile
    /\ receiptFile = NoReceipt
    /\ deep = FALSE
    /\ outcome = "none"
    /\ missing_local_files = {}
    /\ missing_remote_files = {}
    /\ mismatched_files = {}
    /\ start_local = MissingFile
    /\ streak = 0
    /\ hashes = Zero
    /\ doneHashes = Zero

InitFn ==
    /\ now = 1
    /\ FnRest
    /\ \/ /\ pc = "fn_update"
          /\ \E d \in FnDirs : files = d[1] /\ unreadable = d[2]
          /\ old_local_inventory \in FnInventories(Names)
          /\ valid_filenames \in FnLists
          /\ local_inventory = EmptyInventory
          /\ remote_inventory = EmptyInventory
       \/ /\ pc = "fn_compare"
          /\ files = <<>>
          /\ unreadable = {}
          /\ old_local_inventory = EmptyInventory
          /\ valid_filenames = <<>>
          /\ local_inventory \in FnInventories(FnNames)
          /\ remote_inventory \in FnInventories(FnNames)

\* update_local_inventory(local_dir, valid_filenames, old_local_inventory)
FnUpdate ==
    /\ pc = "fn_update"
    /\ LET r == update_local_inventory(files, unreadable, valid_filenames,
                                       old_local_inventory, now)
       IN /\ local_inventory' = r.inventory
          /\ outcome' = IF r.raised = "none" THEN "ok" ELSE r.raised
          /\ pc' = IF r.raised = "none" THEN "fn_updated" ELSE "fn_raised"
    /\ UNCHANGED <<files, unreadable, localFile, remoteFile, receiptFile, now, deep,
                   old_local_inventory, valid_filenames, remote_inventory,
                   missing_local_files, missing_remote_files, mismatched_files,
                   start_local, streak, hashes, doneHashes>>

\* The updater again, later, over the same list, its own output as the cache,
\* the files' contents and permissions being whatever they have become.
FnRerun ==
    /\ pc = "fn_updated"
    /\ \E d \in FnDirs :
          /\ files' = d[1]
          /\ unreadable' = d[2]
          /\ LET r == update_local_inventory(d[1], d[2], valid_filenames,
                                             local_inventory, now + 1)
             IN /\ local_inventory' = r.inventory
                /\ outcome' = IF r.raised = "none" THEN "ok" ELSE r.raised
                /\ pc' = IF r.raised = "none" THEN "fn_rerun" ELSE "fn_raised"
    /\ old_local_inventory' = local_inventory
    /\ now' = now + 1
    /\ UNCHANGED <<localFile, remoteFile, receiptFile, deep, valid_filenames,
                   remote_inventory, missing_local_files, missing_remote_files,
                   mismatched_files, start_local, streak, hashes, doneHashes>>

\* The three comparisons as main makes them (cli.py 56-60).
FnCompare ==
    /\ pc = "fn_compare"
    /\ missing_local_files' = check_missing_files(local_inventory, remote_inventory)
    /\ missing_remote_files' = check_missing_files(remote_inventory, local_inventory)
    /\ mismatched_files' = check_mismatched_files(local_inventory, remote_inventory)
    /\ pc' = "fn_compared"
    /\ UNCHANGED <<files, unreadable, localFile, remoteFile, receiptFile, now, deep,
                   outcome, old_local_inventory, valid_filenames, local_inventory,
                   remote_inventory, start_local, streak, hashes, doneHashes>>

NextFn == FnUpdate \/ FnRerun \/ FnCompare

SpecFn == InitFn /\ [][NextFn]_vars

(* ------------------------------- claims -------------------------------- *)

NamesOf(inv) == {inv.ArchiveList[i].ArchiveDescription : i \in DOMAIN inv.ArchiveList}

Updated == pc \in {"fn_updated", "fn_rerun"}

\* C1: in the output of update_local_inventory the record of a filename that is a
\* key of the cache's projection carries the cached checksum, whatever the file
\* holds now, and the record of any other filename carries the tree hash of the
\* file's content; run again over the same list with its own output as the cache,
\* the updater changes no record's checksum, only the timestamps.
C1_CacheReusedElseHashed ==
    /\ Updated =>
          \A i \in DOMAIN local_inventory.ArchiveList :
             LET e == local_inventory.ArchiveList[i]
                 f == e.ArchiveDescription
                 cache == dictify_inventory(old_local_inventory)
             IN /\ f = valid_filenames[i]
                /\ f \in DOMAIN cache => e.SHA256TreeHash = cache[f]
                /\ f \notin DOMAIN cache =>
                      f \in DOMAIN files /\ e.SHA256TreeHash = TreeHash(files[f])
    /\ pc = "fn_rerun" =>
          /\ Len(local_inventory.ArchiveList) = Len(old_local_inventory.ArchiveList)
          /\ \A i \in DOMAIN local_inventory.ArchiveList :
                /\ local_inventory.ArchiveList[i].SHA256TreeHash
                      = old_local_inventory.ArchiveList[i].SHA256TreeHash
                /\ local_inventory.ArchiveList[i].CreationDate = now
                /\ old_local_inventory.ArchiveList[i].CreationDate = now - 1

\* C1 witness: a second pass has run over a list with a file whose kept checksum
\* is not the hash of its present content and a readable file whose checksum is.
C1_Witness ==
    /\ pc = "fn_rerun"
    /\ \E i, j \in DOMAIN local_inventory.ArchiveList :
          /\ valid_filenames[i] \in DOMAIN files
          /\ local_inventory.ArchiveList[i].SHA256TreeHash
                # TreeHash(files[valid_filenames[i]])
          /\ valid_filenames[j] \in DOMAIN files
          /\ valid_filenames[j] \notin unreadable
          /\ local_inventory.ArchiveList[j].SHA256TreeHash
                = TreeHash(files[valid_filenames[j]])
          /\ i # j

\* C2: the inventory update_local_inventory returns has one record for each
\* filename of the list, in the list's order, and no other record (exactly one
\* record per name when the list names no file twice, as a directory listing
\* does): names of the previous inventory that are not in the list are dropped.
C2_OneRecordPerFilename ==
    pc = "fn_updated" =>
       /\ Len(local_inventory.ArchiveList) = Len(valid_filenames)
       /\ \A i \in DOMAIN valid_filenames :
             local_inventory.ArchiveList[i].ArchiveDescription = valid_filenames[i]
       /\ valid_filenames \in Orderings(NamesOf(local_inventory)) =>
             \A f \in NamesOf(local_inventory) :
                Cardinality({j \in DOMAIN local_inventory.ArchiveList :
                   local_inventory.ArchiveList[j].ArchiveDescription = f}) = 1
       /\ \A f \in NamesOf(old_local_inventory) :
             (\A i \in DOMAIN valid_filenames : valid_filenames[i] # f)
                => f \notin NamesOf(local_inventory)

\* C2 witness: an update over a non-empty list whose previous inventory names a
\* file that is no longer listed.
C2_Witness ==
    /\ pc = "fn_updated"
    /\ valid_filenames # <<>>
    /\ \E f \in NamesOf(old_local_inventory) :
          \A i \in DOMAIN valid_filenames : valid_filenames[i] # f

\* C3: check_missing_files(from, against) is the set of names of against that are
\* not names of from, whatever the checksums; it is empty exactly when every name
\* of against is a name of from; main's call (local, remote) gives
\* missing_local_files and its call (remote, local) gives missing_remote_files.
C3_MissingIsNameDifference ==
    pc = "fn_compared" =>
       /\ missing_local_files = NamesOf(remote_inventory) \ NamesOf(local_inventory)
       /\ missing_remote_files = NamesOf(local_inventory) \ NamesOf(remote_inventory)
       /\ missing_local_files = {}
             <=> NamesOf(remote_inventory) \subseteq NamesOf(local_inventory)
       /\ missing_remote_files = {}
             <=> NamesOf(local_inventory) \subseteq NamesOf(remote_inventory)

\* C3 witness: local {a.txt, b.txt} against remote {a.txt, c.txt}.
C3_Witness ==
    /\ pc = "fn_compared"
    /\ NamesOf(local_inventory) = {"a.txt", "b.txt"}
    /\ NamesOf(remote_inventory) = {"a.txt", "c.txt"}
    /\ missing_local_files = {"c.txt"}
    /\ missing_remote_files = {"b.txt"}

\* C4: check_mismatched_files(local, remote) is the set of names that are keys of
\* both projections and whose projected checksums differ: no name missing from a
\* side, no name whose two checksums are equal.
C4_MismatchedIsCommonAndDifferent ==
    pc = "fn_compared" =>
       LET l == dictify_inventory(local_inventory)
           r == dictify_inventory(remote_inventory)
       IN /\ mismatched_files \subseteq (DOMAIN l \cap DOMAIN r)
          /\ \A k \in DOMAIN l \cap DOMAIN r : k \in mismatched_files <=> l[k] # r[k]

\* C4 witness: one comparison with a name on both sides whose checksums differ
\* and a name on both sides whose checksums are equal.
C4_Witness ==
    /\ pc = "fn_compared"
    /\ mismatched_files # {}
    /\ (NamesOf(local_inventory) \cap NamesOf(remote_inventory)) \ mismatched_files # {}

\* C10: the three result sets of one comparison are pairwise disjoint, and a name
\* of either inventory is in none of them exactly when it is in both projections
\* with equal checksums; identical projections give three empty sets, and an
\* inventory without records gives every name of the other as missing, no mismatch.
C10_ResultsPartitionNames ==
    pc = "fn_compared" =>
       LET l == dictify_inventory(local_inventory)
           r == dictify_inventory(remote_inventory)
           found == missing_local_files \cup missing_remote_files \cup mismatched_files
       IN /\ missing_local_files \cap missing_remote_files = {}
          /\ missing_local_files \cap mismatched_files = {}
          /\ missing_remote_files \cap mismatched_files = {}
          /\ \A k \in NamesOf(local_inventory) \cup NamesOf(remote_inventory) :
                k \notin found <=> (k \in DOMAIN l /\ k \in DOMAIN r /\ l[k] = r[k])
          /\ l = r => found = {}
          /\ local_inventory.ArchiveList = <<>> =>
                /\ missing_local_files = NamesOf(remote_inventory)
                /\ missing_remote_files = {}
                /\ mismatched_files = {}
          /\ remote_inventory.ArchiveList = <<>> =>
                /\ missing_remote_files = NamesOf(local_inventory)
                /\ missing_local_files = {}
                /\ mismatched_files = {}

\* C10 witness: one comparison with a name in each of the three sets.
C10_Witness ==
    /\ pc = "fn_compared"
    /\ missing_local_files # {}
    /\ missing_remote_files # {}
    /\ mismatched_files # {}

(* Claims about whole runs, checked under Spec. *)

IsInventoryFile(file) == file.kind = "json" /\ file.json.hasList
IsJsonFile(file) == file.kind = "json"

Fresh(inv) ==
    /\ NamesOf(inv) = DOMAIN files
    /\ \A i \in DOMAIN inv.ArchiveList :
          inv.ArchiveList[i].SHA256TreeHash
             = TreeHash(files[inv.ArchiveList[i].ArchiveDescription])

\* C5: a deep run discards the local inventory file and then goes on to rebuild
\* it with a freshly computed checksum for every valid file, whatever the
\* directory holds when the run starts, a local inventory file or none.
C5_DeepRunRehashesAll ==
    /\ deep => outcome # "FileNotFoundError"
    /\ (deep /\ pc = "save") => Fresh(local_inventory)

SameFindings(r1, r2) ==
    /\ r1.local_dir = r2.local_dir
    /\ r1.missing_local_files = r2.missing_local_files
    /\ r1.missing_remote_files = r2.missing_remote_files
    /\ r1.mismatched_files = r2.mismatched_files

\* C7: a run that follows a completed run, with no content file written or
\* removed in between and the same remote inventory, saves a receipt that
\* equals the previous one in everything but the timestamp.
C7_SecondReceiptSame ==
    [][(pc = "receipt" /\ streak >= 1)
          => SameFindings(receiptFile'.receipt, receiptFile.receipt)]_vars

\* C7 as amended: the same, for a second run that is not a deep run.
C7_SecondReceiptSameUnlessDeep ==
    [][(pc = "receipt" /\ streak >= 1 /\ ~deep)
          => SameFindings(receiptFile'.receipt, receiptFile.receipt)]_vars

\* C7 witness: two runs in a row have completed on an unchanged directory, the
\* second not deep, and the receipt reports a finding.
C7_Witness ==
    /\ pc = "idle"
    /\ streak >= 2
    /\ ~deep
    /\ receiptFile.receipt.mismatched_files # {}
    /\ receiptFile.receipt.missing_remote_files # {}

C9_AbortKeepsInventory ==
    (outcome = "IOError" /\ IsInventoryFile(start_local)) => localFile = start_local

\* C9 as amended: so does a run that is not deep; a deep run has removed the
\* local inventory file before it updates, and ends in the error with no local
\* inventory file. The file changes only where a deep run removes it and where a
\* run whose update step completed writes the whole new inventory.
C9_AbortKeepsInventoryUnlessDeep ==
    [][/\ (pc' = "idle" /\ outcome' \in {"IOError", "FileNotFoundError"}) =>
             localFile' = (IF deep' THEN MissingFile ELSE start_local')
       /\ localFile' # localFile =>
             \/ pc = "save" /\ localFile' = JsonFile(local_inventory)
             \/ pc = "remove" /\ deep /\ localFile' = MissingFile]_vars

\* C9 witness: a non-deep run over a directory with a non-empty local inventory
\* has ended in the error of a failed read.
C9_Witness ==
    /\ pc = "idle"
    /\ outcome = "IOError"
    /\ ~deep
    /\ IsInventoryFile(start_local)
    /\ start_local.json.ArchiveList # <<>>

====
